---- MODULE Spec2Model ----
(***************************************************************************)
(* A model of pymusictheory (src/src/pymusictheory/__init__.py): note      *)
(* letters, alterations, notes, notes in an octave, intervals and chords.  *)
(* The library is a set of pure functions and value classes; every action  *)
(* below is one call of a public operation on inputs drawn from bounded    *)
(* sets: Init draws the call (op, args), the action of that operation      *)
(* computes what it returns or raises into ret.                            *)
(***************************************************************************)
EXTENDS Integers, Sequences, FiniteSets, TLC

VARIABLES pc, op, args, ret, chord

vars == <<pc, op, args, ret, chord>>

(***************************************************************************)
(* Bounds of the model.                                                    *)
(***************************************************************************)
\* Highest octave of an input NoteInOctave.
MaxOctave == 4
\* Note.from_semitone_offset is called with -MaxSemitone..MaxSemitone.
MaxSemitone == 16
\* NoteInOctave.from_absolute_semitone_offset is called with -MinTarget..MaxTarget.
MinTarget == 14
MaxTarget == 75
\* Semitone distances passed to NoteInOctave.from_semitone_distance: 0..MaxDistance.
MaxDistance == 2
\* Highest octave of a NoteInOctave that is printed.
MaxPrintOctave == 10
\* Longest string over Alphabet that is parsed.
MaxStrLen == 3
\* Most notes put into the set a Chord is made of.
MaxChordSize == 3
\* Letters are moved by -MaxSteps..MaxSteps steps.
MaxSteps == 15

(***************************************************************************)
(* Outcomes of a call: a returned value or a raised exception.             *)
(***************************************************************************)
Ok(v) == [ok |-> TRUE, val |-> v]
Raise(exc, msg) == [ok |-> FALSE, exc |-> exc, msg |-> msg]

NegativeOctaveMsg == "Octaves cannot be negative"
DoubleAccidentalMsg == "Cannot add intervals to notes with double accidentals."
NotOneNoteMsg == "There should only be one correct note after adding an interval"

(***************************************************************************)
(* NoteLetter: the enum values 0..6 stand for C D E F G A B.               *)
(***************************************************************************)
C == 0
D == 1
E == 2
F == 3
G == 4
A == 5
B == 6

NoteLetter == {C, D, E, F, G, A, B}

\* NoteLetter.__str__: the name of the enum member.
LetterName(l) ==
    CASE l = C -> "C" [] l = D -> "D" [] l = E -> "E" [] l = F -> "F"
      [] l = G -> "G" [] l = A -> "A" [] l = B -> "B"

\* NoteLetter(value): the member with that value, if there is one.
NewNoteLetter(v) ==
    IF v \in NoteLetter THEN Ok(v)
    ELSE Raise("ValueError", "is not a valid NoteLetter")

\* Variant: the remainder has the sign of the dividend.
LetterAddTruncated(l, n) ==
    IF l + n >= 0 THEN (l + n) % Cardinality(NoteLetter)
    ELSE -((-(l + n)) % Cardinality(NoteLetter))

\* NoteLetter.__add__: (value + other) % len(NoteLetter)
LetterAdd(l, n) == (l + n) % Cardinality(NoteLetter)

\* NoteLetter.__sub__: (value - other) % len(NoteLetter)
LetterSub(l, n) == (l - n) % Cardinality(NoteLetter)

\* NoteLetter.from_str
LetterFromStr(s) ==
    IF \E l \in NoteLetter : <<LetterName(l)>> = s
    THEN Ok(CHOOSE l \in NoteLetter : <<LetterName(l)>> = s)
    ELSE Raise("ValueError", "Invalid note letter string")

\* NoteLetter.semitone_offset
LetterSemitoneOffset(l) ==
    CASE l = C -> 0 [] l = D -> 2 [] l = E -> 4 [] l = F -> 5
      [] l = G -> 7 [] l = A -> 9 [] l = B -> 11

(***************************************************************************)
(* NoteAlteration: the enum values, which are the semitone differences.    *)
(***************************************************************************)
SHARP == 1
FLAT == -1
NATURAL == 0
DOUBLE_SHARP == 2
DOUBLE_FLAT == -2

NoteAlteration == {SHARP, FLAT, NATURAL, DOUBLE_SHARP, DOUBLE_FLAT}

\* NoteAlteration.semitone_difference
SemitoneDifference(a) == a

\* A string is a sequence of characters; a character is named by itself
\* or, outside ASCII, by its code point.  The glyphs are the strings of the
\* source file, three characters each.
SharpGlyph == <<"U+00E2", "U+2122", "U+00AF">>
FlatGlyph == <<"U+00E2", "U+2122", "U+00AD">>
NaturalGlyph == <<"U+00E2", "U+2122", "U+00AE">>
DoubleSharpGlyph == <<"U+00F0", "U+201E", "U+00AA">>
DoubleFlatGlyph == <<"U+00F0", "U+201E", "U+00AB">>

\* NoteAlteration.__str__
AlterationStr(a) ==
    CASE a = SHARP -> SharpGlyph
      [] a = FLAT -> FlatGlyph
      [] a = NATURAL -> NaturalGlyph
      [] a = DOUBLE_SHARP -> DoubleSharpGlyph
      [] a = DOUBLE_FLAT -> DoubleFlatGlyph

\* NoteAlteration.from_str
AlterationFromStr(s) ==
    CASE s = SharpGlyph -> Ok(SHARP)
      [] s = <<"#">> -> Ok(SHARP)
      [] s = FlatGlyph -> Ok(FLAT)
      [] s = <<"b">> -> Ok(FLAT)
      [] s = NaturalGlyph -> Ok(NATURAL)
      [] s = <<"n">> -> Ok(NATURAL)
      [] s = DoubleSharpGlyph -> Ok(DOUBLE_SHARP)
      [] s = <<"#", "#">> -> Ok(DOUBLE_SHARP)
      [] s = DoubleFlatGlyph -> Ok(DOUBLE_FLAT)
      [] s = <<"b", "b">> -> Ok(DOUBLE_FLAT)
      [] OTHER -> Raise("ValueError", "Invalid alteration string")

(***************************************************************************)
(* Note: a letter and an alteration.                                       *)
(***************************************************************************)
Note == [letter : NoteLetter, alteration : NoteAlteration]

MkNote(l, a) == [letter |-> l, alteration |-> a]

\* Note.semitone_offset
NoteSemitoneOffset(n) == LetterSemitoneOffset(n.letter) + SemitoneDifference(n.alteration)

\* Variant: the offset is compared modulo 12.
NoteFromSemitoneOffsetMod12(semitone_offset) ==
    {n \in Note :
        (LetterSemitoneOffset(n.letter) + SemitoneDifference(n.alteration)) % 12
            = semitone_offset % 12}

\* Note.from_semitone_offset
NoteFromSemitoneOffset(semitone_offset) ==
    {n \in Note :
        LetterSemitoneOffset(n.letter) + SemitoneDifference(n.alteration) = semitone_offset}

\* Note.__eq__ (against another Note)
NoteEq(a, b) == a.letter = b.letter /\ a.alteration = b.alteration

\* Note.__hash__: hash((letter, alteration)); the tuple stands for its hash.
NoteHash(n) == <<n.letter, n.alteration>>

\* Note.from_str
NoteFromStr(s) ==
    IF Len(s) = 1
    THEN LET letter == LetterFromStr(s)
         IN  IF letter.ok THEN Ok(MkNote(letter.val, NATURAL)) ELSE letter
    ELSE IF Len(s) = 0
    THEN Raise("IndexError", "string index out of range")
    ELSE LET letter == LetterFromStr(<<s[1]>>)
             alteration == AlterationFromStr(Tail(s))
         IN  IF ~letter.ok THEN letter
             ELSE IF ~alteration.ok THEN alteration
             ELSE Ok(MkNote(letter.val, alteration.val))

\* Variant: the natural is printed with its glyph, like the other alterations.
NoteStrGlyphAlways(n) == <<LetterName(n.letter)>> \o AlterationStr(n.alteration)

\* Note.__str__
NoteStr(n) ==
    IF n.alteration # NATURAL
    THEN <<LetterName(n.letter)>> \o AlterationStr(n.alteration)
    ELSE <<LetterName(n.letter)>>

(***************************************************************************)
(* Interval: (semitone distance, letter distance).                         *)
(***************************************************************************)
Interval ==
    { <<0, 0>>, <<1, 1>>, <<2, 1>>, <<3, 2>>, <<4, 2>>, <<5, 3>>,
      <<7, 4>>, <<8, 5>>, <<9, 5>>, <<10, 6>>, <<11, 6>>, <<12, 7>> }

PERFECT_UNISON == <<0, 0>>
MINOR_THIRD == <<3, 2>>
MAJOR_THIRD == <<4, 2>>
PERFECT_FIFTH == <<7, 4>>
PERFECT_OCTAVE == <<12, 7>>

\* Interval.semitone_distance
SemitoneDistance(i) == i[1]

\* Interval.letter_distance
LetterDistance(i) == i[2]

(***************************************************************************)
(* NoteInOctave: a note and an octave.                                     *)
(***************************************************************************)
MkNoteInOctave(n, o) == [note |-> n, octave |-> o]

\* Variant: the octave is not checked.
NewNoteInOctaveUnchecked(n, o) == Ok(MkNoteInOctave(n, o))

\* NoteInOctave.__init__: the assertion on the octave.
NewNoteInOctave(n, o) ==
    IF o >= 0 THEN Ok(MkNoteInOctave(n, o))
    ELSE Raise("AssertionError", NegativeOctaveMsg)

\* The NoteInOctave values the calls are made on.
NoteInOctave == {MkNoteInOctave(n, o) : n \in Note, o \in 0..MaxOctave}

\* NoteInOctave.absolute_semitone_offset
AbsoluteSemitoneOffset(p) == 12 * p.octave + NoteSemitoneOffset(p.note)

\* Variant: equality of the fields, as for Note.
NoteInOctaveEqStructural(a, b) == a.note = b.note /\ a.octave = b.octave

\* NoteInOctave.__eq__ (against another NoteInOctave)
NoteInOctaveEq(a, b) == AbsoluteSemitoneOffset(a) = AbsoluteSemitoneOffset(b)

\* NoteInOctave.__lt__ (against another NoteInOctave)
NoteInOctaveLt(a, b) == AbsoluteSemitoneOffset(a) < AbsoluteSemitoneOffset(b)

(***************************************************************************)
(* Comparison with any object.  An object is its type and its value; the   *)
(* operators other than == and < are the ones object and total_ordering    *)
(* derive from __eq__ and __lt__.                                          *)
(***************************************************************************)
CompareMsg == "Cannot compare NoteInOctave with non-NoteInOctave object"

Object(type, val) == [type |-> type, val |-> val]

\* Variant: an object of another type is unequal instead of refused.
EqObjectUnequalToOthers(self, other) ==
    IF other.type = "NoteInOctave"
    THEN Ok(NoteInOctaveEq(self, other.val))
    ELSE Ok(FALSE)

\* NoteInOctave.__eq__
EqObject(self, other) ==
    IF other.type = "NoteInOctave"
    THEN Ok(NoteInOctaveEq(self, other.val))
    ELSE Raise("AssertionError", CompareMsg)

\* NoteInOctave.__lt__
LtObject(self, other) ==
    IF other.type = "NoteInOctave"
    THEN Ok(NoteInOctaveLt(self, other.val))
    ELSE Raise("AssertionError", CompareMsg)

\* object.__ne__: the inverse of __eq__.
NeObject(self, other) ==
    LET eq == EqObject(self, other)
    IN  IF eq.ok THEN Ok(~eq.val) ELSE eq

\* total_ordering, __le__ from __lt__: a < b or a == b.
LeObject(self, other) ==
    LET lt == LtObject(self, other)
    IN  IF ~lt.ok THEN lt
        ELSE IF lt.val THEN Ok(TRUE)
        ELSE EqObject(self, other)

\* total_ordering, __gt__ from __lt__: not a < b and a != b.
GtObject(self, other) ==
    LET lt == LtObject(self, other)
    IN  IF ~lt.ok THEN lt
        ELSE IF lt.val THEN Ok(FALSE)
        ELSE NeObject(self, other)

\* total_ordering, __ge__ from __lt__: not a < b.
GeObject(self, other) ==
    LET lt == LtObject(self, other)
    IN  IF lt.ok THEN Ok(~lt.val) ELSE lt

CompareOperators == {"==", "!=", "<", "<=", ">", ">="}

\* The method of the NoteInOctave that a comparison operator calls.
Method(operator, self, other) ==
    CASE operator = "==" -> EqObject(self, other)
      [] operator = "!=" -> NeObject(self, other)
      [] operator = "<" -> LtObject(self, other)
      [] operator = "<=" -> LeObject(self, other)
      [] operator = ">" -> GtObject(self, other)
      [] operator = ">=" -> GeObject(self, other)

\* The operator with its operands swapped.
Reflected(operator) ==
    CASE operator = "==" -> "=="
      [] operator = "!=" -> "!="
      [] operator = "<" -> ">"
      [] operator = "<=" -> ">="
      [] operator = ">" -> "<"
      [] operator = ">=" -> "<="

\* self <operator> other when side is "left", other <operator> self when
\* it is "right".  On the right, the other object's method does not know
\* NoteInOctave and the reflected method of the NoteInOctave is called; two
\* NoteInOctave are compared by the method of the left one.
Compare(self, operator, other, side) ==
    IF side = "left" THEN Method(operator, self, other)
    ELSE IF other.type = "NoteInOctave"
    THEN Method(operator, other.val, Object("NoteInOctave", self))
    ELSE Method(Reflected(operator), self, other)

\* Variant: the hash agrees with __eq__.
NoteInOctaveHashOfOffset(p) == AbsoluteSemitoneOffset(p)

\* NoteInOctave.__hash__: hash((note, octave)); the tuple stands for its hash.
NoteInOctaveHash(p) == <<NoteHash(p.note), p.octave>>

Digits == <<"0", "1", "2", "3", "4", "5", "6", "7", "8", "9">>

\* A decimal digit outside ASCII: ARABIC-INDIC DIGIT THREE.
ArabicIndicThree == "U+0663"

\* int(c) of a one-character string: the value of a decimal digit, ASCII
\* or not.
IntFromChar(c) ==
    IF \E d \in 1..10 : Digits[d] = c
    THEN Ok((CHOOSE d \in 1..10 : Digits[d] = c) - 1)
    ELSE IF c = ArabicIndicThree
    THEN Ok(3)
    ELSE Raise("ValueError", "invalid literal for int() with base 10")

\* str(n) of an integer n >= 0.
RECURSIVE IntStr(_)
IntStr(n) ==
    IF n < 10 THEN <<Digits[n + 1]>>
    ELSE IntStr(n \div 10) \o <<Digits[(n % 10) + 1]>>

\* NoteInOctave.from_str
NoteInOctaveFromStr(s) ==
    IF Len(s) = 0
    THEN Raise("IndexError", "string index out of range")
    ELSE LET note == NoteFromStr(SubSeq(s, 1, Len(s) - 1))
             octave == IntFromChar(s[Len(s)])
         IN  IF ~note.ok THEN note
             ELSE IF ~octave.ok THEN octave
             ELSE NewNoteInOctave(note.val, octave.val)

\* NoteInOctave.__str__
NoteInOctaveStr(p) == NoteStr(p.note) \o IntStr(p.octave)

(***************************************************************************)
(* A Python set of NoteInOctave: an element is added unless the set holds  *)
(* one with the same hash that __eq__ says is equal.                       *)
(***************************************************************************)
PySetAdd(s, x) ==
    IF \E e \in s : NoteInOctaveHash(e) = NoteInOctaveHash(x) /\ NoteInOctaveEq(e, x)
    THEN s
    ELSE s \cup {x}

RECURSIVE PySetOf(_)
PySetOf(elems) ==
    IF elems = {} THEN {}
    ELSE LET x == CHOOSE e \in elems : TRUE
         IN  PySetAdd(PySetOf(elems \ {x}), x)

\* The candidate semitone offsets of from_absolute_semitone_offset.
SemitoneOffsetCandidates(t) ==
    IF t % 12 = 0 THEN {0, 12}
    ELSE IF t % 12 = 1 THEN {1, 13}
    ELSE IF t % 12 = 11 THEN {11, -1}
    ELSE IF t % 12 = 10 THEN {10, -2}
    ELSE {t % 12}

\* Variant: the octave above is not a candidate for offsets 10 and 11.
CandidateOctavesNoneAbove(t) ==
    IF t % 12 = 0 THEN {t \div 12, (t \div 12) - 1}
    ELSE IF t % 12 = 1 THEN {t \div 12, (t \div 12) - 1}
    ELSE {t \div 12}

\* The candidate octaves of from_absolute_semitone_offset.
CandidateOctaves(t) ==
    IF t % 12 = 0 THEN {t \div 12, (t \div 12) - 1}
    ELSE IF t % 12 = 1 THEN {t \div 12, (t \div 12) - 1}
    ELSE IF t % 12 = 11 THEN {t \div 12, (t \div 12) + 1}
    ELSE IF t % 12 = 10 THEN {t \div 12, (t \div 12) + 1}
    ELSE {t \div 12}

\* Variant: the candidates are not filtered by what they add up to.
FromAbsoluteSemitoneOffsetUnfiltered(t) ==
    LET notes == UNION {NoteFromSemitoneOffset(c) : c \in SemitoneOffsetCandidates(t)}
        made  == {NewNoteInOctave(pr[1], pr[2]) : pr \in notes \X CandidateOctaves(t)}
    IN  IF \E r \in made : ~r.ok
        THEN CHOOSE r \in made : ~r.ok
        ELSE Ok(PySetOf({r.val : r \in made}))

\* NoteInOctave.from_absolute_semitone_offset: every (note, octave) of the
\* candidates that adds up to the target is constructed, and the
\* construction of one with a negative octave raises.
FromAbsoluteSemitoneOffset(t) ==
    LET notes == UNION {NoteFromSemitoneOffset(c) : c \in SemitoneOffsetCandidates(t)}
        kept  == {pr \in notes \X CandidateOctaves(t) :
                     NoteSemitoneOffset(pr[1]) + pr[2] * 12 = t}
        made  == {NewNoteInOctave(pr[1], pr[2]) : pr \in kept}
    IN  IF \E r \in made : ~r.ok
        THEN CHOOSE r \in made : ~r.ok
        ELSE Ok(PySetOf({r.val : r \in made}))

\* NoteInOctave.from_semitone_distance
FromSemitoneDistance(self, semitone_offset) ==
    FromAbsoluteSemitoneOffset(AbsoluteSemitoneOffset(self) + semitone_offset)

\* Variant: the feasible notes are not filtered by letter.
AddIntervalAnyLetter(self, interval) ==
    IF self.note.alteration \in {DOUBLE_SHARP, DOUBLE_FLAT}
    THEN Raise("ValueError", DoubleAccidentalMsg)
    ELSE LET feasible_notes == FromSemitoneDistance(self, SemitoneDistance(interval))
         IN  IF ~feasible_notes.ok THEN feasible_notes
             ELSE Ok(CHOOSE note \in feasible_notes.val : TRUE)

\* Variant: only the double sharp is refused.
AddIntervalDoubleFlatAllowed(self, interval) ==
    IF self.note.alteration \in {DOUBLE_SHARP}
    THEN Raise("ValueError", DoubleAccidentalMsg)
    ELSE LET feasible_notes == FromSemitoneDistance(self, SemitoneDistance(interval))
         IN  IF ~feasible_notes.ok THEN feasible_notes
             ELSE LET new_notes ==
                          {note \in feasible_notes.val :
                              LetterSub(note.note.letter, LetterDistance(interval))
                                  = self.note.letter}
                  IN  IF Cardinality(new_notes) = 1
                      THEN Ok(CHOOSE note \in new_notes : TRUE)
                      ELSE Raise("AssertionError", NotOneNoteMsg)

\* NoteInOctave.__add__
AddInterval(self, interval) ==
    IF self.note.alteration \in {DOUBLE_SHARP, DOUBLE_FLAT}
    THEN Raise("ValueError", DoubleAccidentalMsg)
    ELSE LET feasible_notes == FromSemitoneDistance(self, SemitoneDistance(interval))
         IN  IF ~feasible_notes.ok THEN feasible_notes
             ELSE LET new_notes ==
                          {note \in feasible_notes.val :
                              LetterSub(note.note.letter, LetterDistance(interval))
                                  = self.note.letter}
                  IN  IF Cardinality(new_notes) = 1
                      THEN Ok(CHOOSE note \in new_notes : TRUE)
                      ELSE Raise("AssertionError", NotOneNoteMsg)

(***************************************************************************)
(* The calls on notes and notes in an octave.  Init draws the operation    *)
(* and its arguments; the operation's action runs it.                      *)
(***************************************************************************)
Pending == Raise("", "")

\* The characters of the strings that are parsed: letters, a name that is
\* no letter, the ASCII alterations, a sign, digits, the characters of
\* the sharp glyph and a digit outside ASCII.
Alphabet ==
    {"C", "B", "H", "#", "b", "n", "-", "0", "4", "U+00E2", "U+2122", "U+00AF",
     ArabicIndicThree}

BoundedStrings == UNION {[1..k -> Alphabet] : k \in 0..MaxStrLen}

\* The texts of the alterations: none, the glyphs and the ASCII forms.
AlterationTexts ==
    { <<>>, SharpGlyph, FlatGlyph, NaturalGlyph, DoubleSharpGlyph, DoubleFlatGlyph,
      <<"#">>, <<"b">>, <<"n">>, <<"#", "#">>, <<"b", "b">> }

NoteTexts == {<<LetterName(l)>> \o x : l \in NoteLetter, x \in AlterationTexts}

NoteInOctaveTexts == {t \o <<Digits[d]>> : t \in NoteTexts, d \in 1..10}

ParseInputs == BoundedStrings \cup NoteTexts \cup NoteInOctaveTexts

\* The NoteInOctave values that are printed.
PrintedNotesInOctave == {MkNoteInOctave(n, o) : n \in Note, o \in 0..MaxPrintOctave}

\* The objects a NoteInOctave is compared with: one of each other type,
\* and two NoteInOctave.
OtherTypes == {"int", "str", "NoneType", "Note"}

ObjectOfType(type) ==
    CASE type = "int" -> Object("int", 48)
      [] type = "str" -> Object("str", "C4")
      [] type = "NoneType" -> Object("NoneType", "None")
      [] type = "Note" -> Object("Note", MkNote(C, NATURAL))

ComparedNotesInOctave ==
    { Object("NoteInOctave", MkNoteInOctave(MkNote(C, NATURAL), 4)),
      Object("NoteInOctave", MkNoteInOctave(MkNote(B, SHARP), 3)) }

Init ==
    /\ pc = "call"
    /\ ret = Pending
    /\ chord = {}
    /\ \/ op = "Note.from_semitone_offset"
          /\ args \in {<<n>> : n \in (-MaxSemitone)..MaxSemitone}
       \/ op = "Note.__eq__"
          /\ args \in Note \X Note
       \/ op = "NoteInOctave"
          /\ args \in Note \X ((-1)..MaxOctave)
       \/ op = "NoteInOctave.from_absolute_semitone_offset"
          /\ args \in {<<t>> : t \in (-MinTarget)..MaxTarget}
       \/ op = "NoteInOctave.from_semitone_distance"
          /\ args \in NoteInOctave \X (0..MaxDistance)
       \/ op = "NoteInOctave.__add__"
          /\ args \in NoteInOctave \X Interval
       \/ op = "NoteInOctave.__eq__"
          /\ args \in NoteInOctave \X NoteInOctave
       \/ op = "NoteInOctave.__lt__"
          /\ args \in NoteInOctave \X NoteInOctave
       \/ op = "compare"
          /\ \E type \in OtherTypes :
                 args \in NoteInOctave \X CompareOperators \X {ObjectOfType(type)}
                              \X {"left", "right"}
       \/ op = "compare"
          /\ args \in NoteInOctave \X CompareOperators \X ComparedNotesInOctave
                       \X {"left", "right"}
       \/ op = "NoteLetter.__add__"
          /\ args \in NoteLetter \X ((-MaxSteps)..MaxSteps)
       \/ op = "NoteLetter.__sub__"
          /\ args \in NoteLetter \X ((-MaxSteps)..MaxSteps)
       \/ op = "Note.from_str"
          /\ args \in {<<s>> : s \in ParseInputs}
       \/ op = "Note.__str__"
          /\ args \in {<<n>> : n \in Note}
       \/ op = "NoteInOctave.from_str"
          /\ args \in {<<s>> : s \in ParseInputs}
       \/ op = "NoteInOctave.__str__"
          /\ args \in {<<p>> : p \in PrintedNotesInOctave}

Return(r) ==
    /\ pc' = "done"
    /\ ret' = r
    /\ UNCHANGED <<op, args, chord>>

CallNoteFromSemitoneOffset ==
    /\ pc = "call" /\ op = "Note.from_semitone_offset"
    /\ Return(Ok(NoteFromSemitoneOffset(args[1])))

CallNoteEq ==
    /\ pc = "call" /\ op = "Note.__eq__"
    /\ Return(Ok(NoteEq(args[1], args[2])))

CallNewNoteInOctave ==
    /\ pc = "call" /\ op = "NoteInOctave"
    /\ Return(NewNoteInOctave(args[1], args[2]))

CallFromAbsoluteSemitoneOffset ==
    /\ pc = "call" /\ op = "NoteInOctave.from_absolute_semitone_offset"
    /\ Return(FromAbsoluteSemitoneOffset(args[1]))

CallFromSemitoneDistance ==
    /\ pc = "call" /\ op = "NoteInOctave.from_semitone_distance"
    /\ Return(FromSemitoneDistance(args[1], args[2]))

CallAdd ==
    /\ pc = "call" /\ op = "NoteInOctave.__add__"
    /\ Return(AddInterval(args[1], args[2]))

CallEq ==
    /\ pc = "call" /\ op = "NoteInOctave.__eq__"
    /\ Return(Ok(NoteInOctaveEq(args[1], args[2])))

CallLt ==
    /\ pc = "call" /\ op = "NoteInOctave.__lt__"
    /\ Return(Ok(NoteInOctaveLt(args[1], args[2])))

CallCompare ==
    /\ pc = "call" /\ op = "compare"
    /\ Return(Compare(args[1], args[2], args[3], args[4]))

CallLetterAdd ==
    /\ pc = "call" /\ op = "NoteLetter.__add__"
    /\ Return(NewNoteLetter(LetterAdd(args[1], args[2])))

CallLetterSub ==
    /\ pc = "call" /\ op = "NoteLetter.__sub__"
    /\ Return(NewNoteLetter(LetterSub(args[1], args[2])))

CallNoteFromStr ==
    /\ pc = "call" /\ op = "Note.from_str"
    /\ Return(NoteFromStr(args[1]))

CallNoteStr ==
    /\ pc = "call" /\ op = "Note.__str__"
    /\ Return(Ok(NoteStr(args[1])))

CallNoteInOctaveFromStr ==
    /\ pc = "call" /\ op = "NoteInOctave.from_str"
    /\ Return(NoteInOctaveFromStr(args[1]))

CallNoteInOctaveStr ==
    /\ pc = "call" /\ op = "NoteInOctave.__str__"
    /\ Return(Ok(NoteInOctaveStr(args[1])))

Next ==
    \/ CallNoteFromSemitoneOffset
    \/ CallNoteEq
    \/ CallNewNoteInOctave
    \/ CallFromAbsoluteSemitoneOffset
    \/ CallFromSemitoneDistance
    \/ CallAdd
    \/ CallEq
    \/ CallLt
    \/ CallCompare
    \/ CallLetterAdd
    \/ CallLetterSub
    \/ CallNoteFromStr
    \/ CallNoteStr
    \/ CallNoteInOctaveFromStr
    \/ CallNoteInOctaveStr

Spec == Init /\ [][Next]_vars

(***************************************************************************)
(* Chords.  A set of NoteInOctave is built by adding notes one at a time,  *)
(* a Chord is made of it, and the chord is printed.  The order in which a  *)
(* set is iterated depends on the hashes and is any order of its members.  *)
(***************************************************************************)
\* The notes the sets are built from.
ChordPool ==
    { MkNoteInOctave(MkNote(C, NATURAL), 4), MkNoteInOctave(MkNote(E, NATURAL), 4),
      MkNoteInOctave(MkNote(G, NATURAL), 4), MkNoteInOctave(MkNote(B, SHARP), 3),
      MkNoteInOctave(MkNote(D, DOUBLE_FLAT), 4), MkNoteInOctave(MkNote(C, FLAT), 4),
      MkNoteInOctave(MkNote(B, NATURAL), 3), MkNoteInOctave(MkNote(F, FLAT), 4) }

\* The orders in which a set can be iterated.
IterationOrders(s) ==
    {q \in [1..Cardinality(s) -> s] : \A x \in s : \E i \in 1..Cardinality(s) : q[i] = x}

\* The place of x in a sorted list: before the elements at the end of the
\* list that x is less than, after every other one.
RECURSIVE InsertSorted(_, _)
InsertSorted(q, x) ==
    IF q # <<>> /\ NoteInOctaveLt(x, q[Len(q)])
    THEN Append(InsertSorted(SubSeq(q, 1, Len(q) - 1), x), q[Len(q)])
    ELSE Append(q, x)

\* Variant: the list is left in the order of the iteration.
SortedUnsorted(q) == q

\* sorted(notes): a stable sort by __lt__.
RECURSIVE Sorted(_)
Sorted(q) ==
    IF q = <<>> THEN <<>>
    ELSE InsertSorted(Sorted(SubSeq(q, 1, Len(q) - 1)), q[Len(q)])

\* ','.join(str(note) for note in q)
RECURSIVE JoinNotes(_)
JoinNotes(q) ==
    IF q = <<>> THEN <<>>
    ELSE IF Len(q) = 1 THEN NoteInOctaveStr(q[1])
    ELSE NoteInOctaveStr(q[1]) \o <<",">> \o JoinNotes(Tail(q))

\* Chord.__str__, the set being iterated in the order q.
ChordStr(q) == <<"{">> \o JoinNotes(Sorted(q)) \o <<"}">>

\* Chord.__repr__, the set being iterated in the order q.
ChordRepr(q) ==
    <<"C", "h", "o", "r", "d", "(", "{">> \o JoinNotes(Sorted(q)) \o <<"}", ")">>

InitChord ==
    /\ pc = "build"
    /\ op = "set"
    /\ args = <<>>
    /\ ret = Pending
    /\ chord = {}

\* One more note is put into the set; args is the notes put so far.
SetAdd ==
    /\ pc = "build"
    /\ Len(args) < MaxChordSize
    /\ \E p \in ChordPool :
           /\ chord' = PySetAdd(chord, p)
           /\ args' = Append(args, p)
    /\ UNCHANGED <<pc, op, ret>>

\* Chord.__init__: the set is stored as it is.
NewChord ==
    /\ pc = "build"
    /\ pc' = "chord"
    /\ op' = "Chord"
    /\ UNCHANGED <<args, ret, chord>>

CallChordStr ==
    /\ pc = "chord"
    /\ \E q \in IterationOrders(chord) :
           /\ pc' = "done"
           /\ op' = "Chord.__str__"
           /\ ret' = Ok(ChordStr(q))
    /\ UNCHANGED <<args, chord>>

CallChordRepr ==
    /\ pc = "chord"
    /\ \E q \in IterationOrders(chord) :
           /\ pc' = "done"
           /\ op' = "Chord.__repr__"
           /\ ret' = Ok(ChordRepr(q))
    /\ UNCHANGED <<args, chord>>

NextChord ==
    \/ SetAdd
    \/ NewChord
    \/ CallChordStr
    \/ CallChordRepr

SpecChord == InitChord /\ [][NextChord]_vars

(***************************************************************************)
(* Properties.  The offsets of the properties are computed from the table  *)
(* of anchors of the specification, not from the operators above.          *)
(***************************************************************************)
Anchor == (C :> 0) @@ (D :> 2) @@ (E :> 4) @@ (F :> 5) @@ (G :> 7) @@ (A :> 9) @@ (B :> 11)

Offset(l, a, o) == 12 * o + Anchor[l] + a

OffsetOf(p) == Offset(p.note.letter, p.note.alteration, p.octave)

Pitch(l, a, o) == [note |-> [letter |-> l, alteration |-> a], octave |-> o]

Returned(name) == pc = "done" /\ op = name

\* Every spelling (letter, accidental in -2..2, octave >= 0) of a target.
Spellings(t) ==
    {p \in {Pitch(l, a, o) : l \in NoteLetter, a \in (-2)..2, o \in 0..((t \div 12) + 2)} :
        OffsetOf(p) = t}

\* C1: adding any interval of the table to any root with a natural, sharp
\* or flat accidental, in any octave >= 0, returns the one candidate whose
\* letter is letter_distance steps above the root's; it never raises.
C1_AddNeverFails ==
    (Returned("NoteInOctave.__add__")
        /\ args[1].note.alteration \in {NATURAL, SHARP, FLAT})
    => /\ ret.ok
       /\ LetterSub(ret.val.note.letter, LetterDistance(args[2])) = args[1].note.letter

\* C2: for every target >= 2, from_absolute_semitone_offset returns exactly
\* the spellings (letter, accidental in -2..2, octave >= 0) whose offset
\* 12*octave + anchor(letter) + accidental is the target; 12 gives
\* {C1, B#0, Dbb1} and 11 gives {Cb1, B0, A##0}.
C2_EnumerateByAbsoluteOffsetExact ==
    (Returned("NoteInOctave.from_absolute_semitone_offset") /\ args[1] >= 2)
    => /\ ret.ok
       /\ ret.val = Spellings(args[1])
       /\ args[1] = 12 => ret.val = {Pitch(C, 0, 1), Pitch(B, 1, 0), Pitch(D, -2, 1)}
       /\ args[1] = 11 => ret.val = {Pitch(C, -1, 1), Pitch(B, 0, 0), Pitch(A, 2, 0)}

C2_Witness ==
    /\ Returned("NoteInOctave.from_absolute_semitone_offset")
    /\ args[1] = 11
    /\ ret.ok
    /\ Pitch(C, -1, 1) \in ret.val

\* C3: for every integer n, Note.from_semitone_offset(n) is exactly the set
\* of (letter, accidental) pairs with anchor(letter) + accidental = n, not
\* reduced modulo 12: 0 gives {C, Dbb}, 12 gives {B#}, 13 gives {B##}, -1
\* gives {Cb}, 7 gives {G, F##, Abb}; outside -2..13 the set is empty.
C3_EnumerateBySemitoneOffsetExact ==
    Returned("Note.from_semitone_offset")
    => /\ ret.ok
       /\ \A l \in NoteLetter, a \in (-2)..2 :
              ([letter |-> l, alteration |-> a] \in ret.val) <=> (Anchor[l] + a = args[1])
       /\ \A n \in ret.val : n.letter \in NoteLetter /\ n.alteration \in (-2)..2
       /\ args[1] = 0 => ret.val = {MkNote(C, 0), MkNote(D, -2)}
       /\ args[1] = 12 => ret.val = {MkNote(B, 1)}
       /\ args[1] = 13 => ret.val = {MkNote(B, 2)}
       /\ args[1] = -1 => ret.val = {MkNote(C, -1)}
       /\ args[1] = 7 => ret.val = {MkNote(G, 0), MkNote(F, 2), MkNote(A, -2)}
       /\ args[1] \notin (-2)..13 => ret.val = {}

C3_Witness ==
    /\ Returned("Note.from_semitone_offset")
    /\ args[1] = 12
    /\ ret.val = {MkNote(B, 1)}

\* C4: whenever adding an interval returns a note, its absolute offset is
\* the root's plus the interval's semitone distance, its letter is the
\* root's plus the letter distance, and no other octave and accidental
\* give both; C4 + minor third = Eb4, B#4 + perfect fifth = F##5,
\* E#4 + perfect fifth = B#4.
C4_AddResultSpelling ==
    (Returned("NoteInOctave.__add__") /\ ret.ok)
    => LET root == args[1]
           target == OffsetOf(root) + args[2][1]
           letter == (root.note.letter + args[2][2]) % 7
       IN  /\ OffsetOf(ret.val) = target
           /\ ret.val.note.letter = letter
           /\ ret.val.octave >= 0
           /\ \A a \in (-2)..2, o \in 0..(MaxOctave + 3) :
                  Offset(letter, a, o) = target
                      => a = ret.val.note.alteration /\ o = ret.val.octave
           /\ (root = Pitch(C, 0, 4) /\ args[2] = MINOR_THIRD) => ret.val = Pitch(E, -1, 4)
           /\ (root = Pitch(E, 1, 4) /\ args[2] = PERFECT_FIFTH) => ret.val = Pitch(B, 1, 4)
           /\ (root = Pitch(B, 1, MaxOctave) /\ args[2] = PERFECT_FIFTH)
                  => ret.val = Pitch(F, 2, MaxOctave + 1)

C4_Witness ==
    /\ Returned("NoteInOctave.__add__")
    /\ args = <<Pitch(B, 1, MaxOctave), PERFECT_FIFTH>>
    /\ ret = Ok(Pitch(F, 2, MaxOctave + 1))

\* C5: adding any interval of the table to a root with a double sharp or a
\* double flat, whatever its letter and octave, raises the ValueError for
\* double accidentals and returns no note.
C5_AddRefusesDoubleAccidental ==
    (Returned("NoteInOctave.__add__") /\ args[1].note.alteration \in {-2, 2})
    => ret = Raise("ValueError", DoubleAccidentalMsg)

C5_Witness ==
    /\ Returned("NoteInOctave.__add__")
    /\ args = <<Pitch(B, -2, 0), PERFECT_UNISON>>
    /\ ~ret.ok

\* C6: two NoteInOctave are equal exactly when their absolute offsets are
\* equal and a < b exactly when a's offset is smaller, so exactly one of
\* a < b, a == b, b < a holds, whatever the spellings; two Note are equal
\* exactly when letter and alteration are both equal.  C4 == B#3 and
\* Cb4 == B3, while C /= B# and G# /= Ab as Note.
C6_EqualityAndOrder ==
    /\ Returned("NoteInOctave.__eq__")
       => /\ ret.val <=> (OffsetOf(args[1]) = OffsetOf(args[2]))
          /\ ret.val <=> ~(NoteInOctaveLt(args[1], args[2]) \/ NoteInOctaveLt(args[2], args[1]))
          /\ args = <<Pitch(C, 0, 4), Pitch(B, 1, 3)>> => ret.val
          /\ args = <<Pitch(C, -1, 4), Pitch(B, 0, 3)>> => ret.val
    /\ Returned("NoteInOctave.__lt__")
       => /\ ret.val <=> (OffsetOf(args[1]) < OffsetOf(args[2]))
          /\ ret.val => ~NoteInOctaveEq(args[1], args[2]) /\ ~NoteInOctaveLt(args[2], args[1])
    /\ Returned("Note.__eq__")
       => /\ ret.val <=> (args[1].letter = args[2].letter
                            /\ args[1].alteration = args[2].alteration)
          /\ args = <<MkNote(C, 0), MkNote(B, 1)>> => ~ret.val
          /\ args = <<MkNote(G, 1), MkNote(A, -1)>> => ~ret.val

C6_Witness ==
    /\ Returned("NoteInOctave.__eq__")
    /\ args = <<Pitch(C, 0, 4), Pitch(B, 1, 3)>>
    /\ ret.val = TRUE

\* C7 as stated: a chord never holds two members with the same absolute
\* offset; differently spelled notes of equal offset collapse to one member.
C7_NoTwoMembersShareOffset ==
    \A a \in chord, b \in chord : OffsetOf(a) = OffsetOf(b) => a = b

\* C7 as amended: the set a chord is made of holds every note put into it,
\* one member per (letter, alteration, octave); notes spelled differently
\* stay separate members although they have the same absolute offset and
\* compare equal, because their hashes differ.
C7_EverySpellingIsAMember ==
    chord = {args[i] : i \in DOMAIN args}

C7_Witness ==
    /\ pc = "chord"
    /\ args = <<Pitch(C, 0, 4), Pitch(B, 1, 3)>>
    /\ Cardinality(chord) = 2

NonDecreasing(q) == \A i \in 1..(Len(q) - 1) : OffsetOf(q[i]) <= OffsetOf(q[i + 1])

\* C8: the text of a chord lists every member once, between braces and
\* separated by commas, in non-decreasing order of absolute offset,
\* whatever the order of insertion or iteration; the chord of C4, G4, E4
\* is printed {C4,E4,G4}.
C8_ChordStrSorted ==
    Returned("Chord.__str__")
    => /\ ret.ok
       /\ \E q \in IterationOrders(chord) :
              NonDecreasing(q) /\ ret.val = <<"{">> \o JoinNotes(q) \o <<"}">>
       /\ chord = {Pitch(C, 0, 4), Pitch(G, 0, 4), Pitch(E, 0, 4)}
              => ret.val = <<"{", "C", "4", ",", "E", "4", ",", "G", "4", "}">>

C8_Witness ==
    /\ Returned("Chord.__str__")
    /\ args = <<Pitch(C, 0, 4), Pitch(G, 0, 4), Pitch(E, 0, 4)>>
    /\ ret.val = <<"{", "C", "4", ",", "E", "4", ",", "G", "4", "}">>

\* C9: constructing a NoteInOctave with a negative octave raises, and every
\* NoteInOctave that a construction, a parse, an enumeration by absolute
\* offset or by distance, or an addition returns has an octave >= 0.
C9_OctaveNeverNegative ==
    /\ Returned("NoteInOctave")
       => /\ args[2] < 0 => ret = Raise("AssertionError", NegativeOctaveMsg)
          /\ ret.ok => ret.val.octave >= 0
    /\ (Returned("NoteInOctave.from_str") /\ ret.ok) => ret.val.octave >= 0
    /\ (Returned("NoteInOctave.from_absolute_semitone_offset") /\ ret.ok)
       => \A p \in ret.val : p.octave >= 0
    /\ (Returned("NoteInOctave.from_semitone_distance") /\ ret.ok)
       => \A p \in ret.val : p.octave >= 0
    /\ (Returned("NoteInOctave.__add__") /\ ret.ok) => ret.val.octave >= 0

C9_Witness ==
    /\ Returned("NoteInOctave")
    /\ args[2] = -1
    /\ ret = Raise("AssertionError", NegativeOctaveMsg)

\* The canonical texts: a letter, then nothing or the glyph of the sharp,
\* flat, double sharp or double flat; for a note in an octave, then a digit.
CanonicalNoteTexts ==
    {<<LetterName(l)>> \o x :
        l \in NoteLetter,
        x \in {<<>>, SharpGlyph, FlatGlyph, DoubleSharpGlyph, DoubleFlatGlyph}}

CanonicalNoteInOctaveTexts == {t \o <<Digits[d]>> : t \in CanonicalNoteTexts, d \in 1..10}

\* C10: printing what a canonical text parses to gives the text back, for
\* notes and for notes in an octave (one digit 0-9); and parsing what a
\* note, or a note in an octave 0..9, prints as gives the same letter,
\* alteration and octave back.
C10_RoundTrip ==
    /\ (Returned("Note.from_str") /\ args[1] \in CanonicalNoteTexts)
       => ret.ok /\ NoteStr(ret.val) = args[1]
    /\ (Returned("NoteInOctave.from_str") /\ args[1] \in CanonicalNoteInOctaveTexts)
       => ret.ok /\ NoteInOctaveStr(ret.val) = args[1]
    /\ Returned("Note.__str__")
       => NoteFromStr(ret.val) = Ok(args[1])
    /\ (Returned("NoteInOctave.__str__") /\ args[1].octave <= 9)
       => NoteInOctaveFromStr(ret.val) = Ok(args[1])

C10_Witness ==
    /\ Returned("NoteInOctave.from_str")
    /\ args[1] = <<"B">> \o DoubleFlatGlyph \o <<"9">>
    /\ ret = Ok(Pitch(B, -2, 9))

\* n is a multiple of 7.
MultipleOfSeven(n) == \E k \in (-MaxSteps - 1)..(MaxSteps + 1) : n = 7 * k

\* C11: adding n to a letter, or subtracting n from it, returns a letter for
\* every letter and every integer n, negative, zero or above 7: the one
\* whose ordinal is (ordinal + n) mod 7, or (ordinal - n) mod 7, in 0..6.
\* So sub(add(l, n), n) = l and add(l, 7) = l = sub(l, 7); C+4 = G,
\* A+2 = C, C-4 = F, E-7 = E.
C11_LetterRing ==
    /\ Returned("NoteLetter.__add__")
       => /\ ret.ok
          /\ ret.val \in 0..6
          /\ MultipleOfSeven(ret.val - (args[1] + args[2]))
          /\ NewNoteLetter(LetterSub(ret.val, args[2])) = Ok(args[1])
          /\ args[2] = 7 => ret.val = args[1]
          /\ args = <<C, 4>> => ret.val = G
          /\ args = <<A, 2>> => ret.val = C
    /\ Returned("NoteLetter.__sub__")
       => /\ ret.ok
          /\ ret.val \in 0..6
          /\ MultipleOfSeven(ret.val - (args[1] - args[2]))
          /\ NewNoteLetter(LetterAdd(ret.val, args[2])) = Ok(args[1])
          /\ args[2] = 7 => ret.val = args[1]
          /\ args = <<C, 4>> => ret.val = F
          /\ args = <<E, 7>> => ret.val = E

C11_Witness ==
    /\ Returned("NoteLetter.__add__")
    /\ args = <<C, -MaxSteps>>
    /\ ret.ok
    /\ ret.val \in 0..6

\* C12: comparing a NoteInOctave with an object that is no NoteInOctave, by
\* any of ==, !=, <, <=, >, >= and on either side, raises the assertion
\* error of the comparison; it returns neither true nor false.
C12_CompareRefusesOtherTypes ==
    (Returned("compare") /\ args[3].type # "NoteInOctave")
    => /\ ~ret.ok
       /\ ret = [ok |-> FALSE, exc |-> "AssertionError", msg |-> CompareMsg]

C12_Witness ==
    /\ Returned("compare")
    /\ args[2] = ">="
    /\ args[3].type = "int"
    /\ args[4] = "right"
    /\ ~ret.ok

\* C13: for the targets -2..1, one of whose candidates needs the octave -1,
\* the enumerations by absolute offset and by distance do not fail: they
\* return the spellings with an octave >= 0 (0 gives {C0, Dbb0}, -1 gives
\* {Cb0}); and the enumeration at distance 0 from any note contains it.
C13_BottomTargetsAreEnumerated ==
    /\ (Returned("NoteInOctave.from_absolute_semitone_offset") /\ args[1] \in (-2)..1)
       => /\ ret.ok
          /\ ret.val = Spellings(args[1])
          /\ args[1] = 0 => ret.val = {Pitch(C, 0, 0), Pitch(D, -2, 0)}
          /\ args[1] = -1 => ret.val = {Pitch(C, -1, 0)}
    /\ (Returned("NoteInOctave.from_semitone_distance") /\ args[2] = 0)
       => /\ ret.ok
          /\ args[1] \in ret.val

\* a comes before b by absolute offset, then by letter, then by alteration.
StructurallyBefore(a, b) ==
    \/ OffsetOf(a) < OffsetOf(b)
    \/ /\ OffsetOf(a) = OffsetOf(b)
       /\ \/ a.note.letter < b.note.letter
          \/ a.note.letter = b.note.letter /\ a.note.alteration < b.note.alteration

\* C14: the text of a chord is determined by its set of notes: the members
\* are listed by absolute offset and, where offsets are equal, by letter
\* and alteration, whatever the order of insertion or of iteration.
C14_ChordStrDeterministic ==
    Returned("Chord.__str__")
    => \E q \in IterationOrders(chord) :
           /\ \A i \in 1..Len(q), j \in 1..Len(q) : i < j => StructurallyBefore(q[i], q[j])
           /\ ret.val = <<"{">> \o JoinNotes(q) \o <<"}">>

\* The texts of the grammar: a letter, then nothing, #, b, ##, bb, n or a
\* glyph; for a note in an octave, then one digit 0-9.
GrammarNoteTexts ==
    {<<LetterName(l)>> \o x :
        l \in NoteLetter,
        x \in { <<>>, <<"#">>, <<"b">>, <<"#", "#">>, <<"b", "b">>, <<"n">>,
                SharpGlyph, FlatGlyph, NaturalGlyph, DoubleSharpGlyph, DoubleFlatGlyph }}

GrammarNoteInOctaveTexts ==
    {t \o <<d>> : t \in GrammarNoteTexts,
                  d \in {"0", "1", "2", "3", "4", "5", "6", "7", "8", "9"}}

\* C15: parsing a string that is no text of the grammar, as a note or as a
\* note in an octave, raises the error of an invalid letter, alteration or
\* octave and returns nothing; so for the empty string, a digit alone, a
\* letter without a digit, an unknown alteration, a last character that is
\* no digit 0-9, an octave of several digits or a negative one.
C15_ParseRefusesOtherTexts ==
    /\ (Returned("Note.from_str") /\ args[1] \notin GrammarNoteTexts)
       => ~ret.ok /\ ret.exc = "ValueError"
    /\ (Returned("NoteInOctave.from_str") /\ args[1] \notin GrammarNoteInOctaveTexts)
       => ~ret.ok /\ ret.exc = "ValueError"

\* No two members of a set of notes have the same letter.
DistinctLetters(notes) ==
    \A a \in notes, b \in notes : a.note.letter = b.note.letter => a = b

\* C16: the members of every set that the enumeration by absolute offset,
\* or by distance, returns have pairwise distinct letters, so at most one
\* of them has the letter that an addition looks for.
C16_ReturnedLettersDistinct ==
    /\ (Returned("NoteInOctave.from_absolute_semitone_offset") /\ ret.ok)
       => DistinctLetters(ret.val)
    /\ (Returned("NoteInOctave.from_semitone_distance") /\ ret.ok)
       => DistinctLetters(ret.val)
    /\ Returned("NoteInOctave.__add__")
       => LET feasible_notes == FromSemitoneDistance(args[1], args[2][1])
          IN  feasible_notes.ok
              => Cardinality({c \in feasible_notes.val :
                                 (c.note.letter - args[2][2]) % 7 = args[1].note.letter}) <= 1

C16_Witness ==
    /\ Returned("NoteInOctave.from_absolute_semitone_offset")
    /\ args[1] = 12
    /\ ret.ok
    /\ Cardinality(ret.val) = 3
    /\ Cardinality({p.note.letter : p \in ret.val}) = 3

====
